---- MODULE Spec2Model ----
(***************************************************************************)
(* Model of src/app.py: the CodeSensei backend.  Five Flask routes over a  *)
(* Firestore document tree  users/<uid>/sessions/<sid>/messages/<auto>,    *)
(* Firebase token verification and one call to the generative model.       *)
(*                                                                         *)
(* The four single-operation routes are one action each.  chat() makes     *)
(* five external calls (verify, add, query, generate, add), any of which   *)
(* may raise; each is a step of its own.                                   *)
(*                                                                         *)
(*   Spec      all five routes, two users, requests served one at a time   *)
(*   SpecConc  chat requests whose steps interleave (threaded server)      *)
(*   SpecHist  chat on a session that already holds up to MaxStored        *)
(*             messages                                                    *)
(*                                                                         *)
(* Server timestamps are strictly increasing: no two documents share one.  *)
(***************************************************************************)
EXTENDS Integers, Sequences, FiniteSets, TLC

\* ------------------------------------------------------------------ bounds
MaxClock == 3          \* number of server timestamps handed out in a run
MaxStored == 22        \* messages already stored in the session (SpecHist)

\* .limit(20) in chat()
HistoryLimit == 20

Users == {"u1", "u2"}
Reqs == {"r1", "r2"}                       \* chat requests in flight
Names == {"a"}                             \* session_name values clients send
AutoIds == {"auto1"}                       \* ids Firestore generates
SessionKeys == Names \cup AutoIds

VARIABLES
    sessions,    \* [Users -> set of session documents [id, name, created_at]]
    messages,    \* [Users \X SessionKeys -> set of message documents]
    clock,       \* last server timestamp handed out; also the doc-id counter
    chat_req,    \* [Reqs -> the locals of one call of chat()]
    last         \* the response a single-operation route sent in the step just
                 \* taken; NoResponse after a step of chat()

vars == <<sessions, messages, clock, chat_req, last>>

\* ------------------------------------------------------------- Auth Gate
\* An Authorization header is a string; it is modelled as a sequence of
\* chunks, one chunk being the separator 'Bearer ' and the others pieces
\* of text that do not contain it.
BearerSep == "Bearer "
TokenOf(u) == "tok_" \o u
Junk == "x"

NoHeader == [present |-> FALSE, value |-> <<>>]
Header(s) == [present |-> TRUE, value |-> s]

Headers ==
    { NoHeader,
      Header(<<Junk>>),
      Header(<<BearerSep, Junk>>),
      Header(<<Junk, BearerSep, TokenOf("u1")>>) }
    \cup { Header(<<BearerSep, TokenOf(u)>>) : u \in Users }

\* str.split('Bearer '): the pieces between the occurrences of the separator
RECURSIVE Split(_)
Split(s) ==
    IF \A i \in 1 .. Len(s) : s[i] # BearerSep
    THEN <<s>>
    ELSE LET i == CHOOSE k \in 1 .. Len(s) :
                      /\ s[k] = BearerSep
                      /\ \A j \in 1 .. k - 1 : s[j] # BearerSep
         IN  <<SubSeq(s, 1, i - 1)>> \o Split(SubSeq(s, i + 1, Len(s)))

Unauthorized == [ok |-> FALSE, uid |-> "none"]

\* auth.verify_id_token: the decoded token, or an exception
verify_id_token(tok) ==
    IF \E u \in Users : tok = <<TokenOf(u)>>
    THEN [ok |-> TRUE, uid |-> CHOOSE u \in Users : tok = <<TokenOf(u)>>]
    ELSE Unauthorized

verify_token_first_piece(h) ==
    IF ~h.present THEN Unauthorized
    ELSE verify_id_token(Split(h.value)[1])

\* verify_token(request): headers.get() is None without the header, [1]
\* raises without a separator; every exception becomes None
verify_token(h) ==
    IF ~h.present THEN Unauthorized
    ELSE LET pieces == Split(h.value)
         IN  IF Len(pieces) < 2 THEN Unauthorized
             ELSE verify_id_token(pieces[2])

\* ------------------------------------------------- Session Store Adapter
\* db.collection('users').document(uid).collection('sessions')
SessionsRef(uid) == uid

MessagesRefAnyUser(uid, sid) == <<CHOOSE u \in Users : TRUE, sid>>

\* db.collection('users').document(uid).collection('sessions')
\*   .document(sid).collection('messages')
MessagesRef(uid, sid) == <<uid, sid>>

\* order_by(field): the documents by ascending field value
RECURSIVE OrderByAsc(_, _)
OrderByAsc(docs, field) ==
    IF docs = {} THEN <<>>
    ELSE LET d == CHOOSE x \in docs : \A y \in docs : x[field] <= y[field]
         IN  <<d>> \o OrderByAsc(docs \ {d}, field)

\* order_by(field, direction=DESCENDING)
RECURSIVE OrderByDesc(_, _)
OrderByDesc(docs, field) ==
    IF docs = {} THEN <<>>
    ELSE LET d == CHOOSE x \in docs : \A y \in docs : x[field] >= y[field]
         IN  <<d>> \o OrderByDesc(docs \ {d}, field)

\* .limit(n)
Limit(s, n) == SubSeq(s, 1, IF Len(s) < n THEN Len(s) ELSE n)

\* strftime("%Y-%m-%d %H:%M"): the time cut to the minute
Minute(t) == t \div 2
DefaultName(t) == "Chat - " \o ToString(Minute(t))

\* ------------------------------------------------------------ responses
\* A request (route, Authorization header, the session_id of the URL or the
\* session_name of the body) with the identity it was served under and its
\* response (status, JSON body as a list)
Response(route, h, user, arg, status, body) ==
    [route |-> route, header |-> h, uid |-> user.uid, arg |-> arg,
     status |-> status, body |-> body]

NoResponse == Response("none", NoHeader, Unauthorized, "", 0, <<>>)

\* ------------------------------------------------------- request bodies
\* Python's None, and the values `not v` is true of
PyNone == "<None>"
Falsy(v) == v \in {PyNone, ""}

EmptyDict == [k \in {} |-> ""]
\* The body of a request sent as application/json: a JSON object, the JSON
\* value null (request.json is None), or text that is not JSON (request.json
\* raises werkzeug's BadRequest, an HTTPException with code 400)
JsonObject(d) == [kind |-> "object", dict |-> d]
JsonNull == [kind |-> "null", dict |-> EmptyDict]
Malformed == [kind |-> "malformed", dict |-> EmptyDict]

\* dict.get(key, default)
DictGet(d, key, default) == IF key \in DOMAIN d THEN d[key] ELSE default

CreateBodies ==
    { JsonNull, Malformed }
    \cup { JsonObject([session_name |-> n]) : n \in Names \cup {""} }

\* ------------------------------------------------------------ the store
\* DocumentReference.set(): the document with this id is replaced
SetDoc(docs, doc) == {d \in docs : d.id # doc.id} \cup {doc}

DeleteAllDocs(docs, id) == {}

\* DocumentReference.delete(): shallow, the subcollections stay
DeleteDoc(docs, id) == {d \in docs : d.id # id}

\* .document(): an id no document of the collection has or had
FreshIds(uid) ==
    {k \in AutoIds : /\ \A d \in sessions[SessionsRef(uid)] : d.id # k
                     /\ messages[MessagesRef(uid, k)] = {}}

Ids(docs) == {d.id : d \in docs}

\* ---------------------------------------------------------------- routes
Answer(resp) ==
    /\ last' = resp
    /\ UNCHANGED <<sessions, messages, clock, chat_req>>

SessionListEntry(doc) == [id |-> doc.id, name |-> doc.name]

Map(f(_), s) == [i \in 1 .. Len(s) |-> f(s[i])]

\* GET /api/get_chat_sessions
get_chat_sessions(h) ==
    LET user == verify_token(h)
        R(status, body) == Response("get_chat_sessions", h, user, "", status, body)
    IN  IF ~user.ok THEN Answer(R(401, <<>>))
        ELSE \E raised \in BOOLEAN :
             IF raised THEN Answer(R(500, <<>>))
             ELSE LET sessions_ref ==
                          OrderByDesc(sessions[SessionsRef(user.uid)], "created_at")
                  IN  Answer(R(200, Map(SessionListEntry, sessions_ref)))

SessionDocIdGenerated(uid, session_name) == FreshIds(uid)

\* if session_name: .document(session_name) else: .document()
SessionDocId(uid, session_name) ==
    IF Falsy(session_name) THEN FreshIds(uid) ELSE {session_name}

\* POST /api/create_session
create_session(h, body) ==
    LET user == verify_token(h)
        json == IF body.kind = "null" THEN EmptyDict ELSE body.dict
        session_name == DictGet(json, "session_name", PyNone)
        R(status, b) == Response("create_session", h, user, session_name, status, b)
    IN  IF ~user.ok THEN Answer(R(401, <<>>))
        ELSE \E raised \in BOOLEAN :
             IF raised \/ body.kind = "malformed" THEN Answer(R(500, <<>>))
             ELSE LET name == IF Falsy(session_name)
                              THEN DefaultName(clock) ELSE session_name
                  IN  \E doc_id \in SessionDocId(user.uid, session_name) :
                        /\ clock < MaxClock
                        /\ clock' = clock + 1
                        /\ sessions' =
                             [sessions EXCEPT ![SessionsRef(user.uid)] =
                                SetDoc(@, [id |-> doc_id, name |-> name,
                                           created_at |-> clock + 1])]
                        /\ last' = R(200, <<[session_id |-> doc_id, name |-> name]>>)
                        /\ UNCHANGED <<messages, chat_req>>

\* GET /api/get_session_messages/<session_id>
get_session_messages(h, session_id) ==
    LET user == verify_token(h)
        R(status, b) == Response("get_session_messages", h, user, session_id, status, b)
    IN  IF ~user.ok THEN Answer(R(401, <<>>))
        ELSE \E raised \in BOOLEAN :
             IF raised THEN Answer(R(500, <<>>))
             ELSE Answer(R(200, OrderByAsc(messages[MessagesRef(user.uid, session_id)],
                                           "timestamp")))

\* DELETE /api/delete_session/<session_id>
delete_session(h, session_id) ==
    LET user == verify_token(h)
        R(status) == Response("delete_session", h, user, session_id, status, <<>>)
    IN  IF ~user.ok THEN Answer(R(401))
        ELSE \E raised \in BOOLEAN :
             IF raised THEN Answer(R(500))
             ELSE /\ sessions' = [sessions EXCEPT ![SessionsRef(user.uid)] =
                                     DeleteDoc(@, session_id)]
                  /\ last' = R(200)
                  /\ UNCHANGED <<messages, clock, chat_req>>

\* ------------------------------------------------------------------ chat
Absent == "<absent>"
\* a JSON array: a Python list, which is not hashable
JsonList == "<list>"

\* the JSON object with the keys of f that are not Absent
MakeDict(f) == [k \in {x \in DOMAIN f : f[x] # Absent} |-> f[k]]

ModeInputs == {Absent, PyNone, JsonList, "coding_coach", "debugging_assistant",
               "general", "other"}

ChatDict(m, md, sd) == MakeDict([message |-> m, mode |-> md, session_id |-> sd])

\* bodies with every mode, and bodies the 400 check rejects
BodiesWithMode(modes, sids) ==
    { JsonObject(ChatDict("m1", md, sd)) : md \in modes, sd \in sids }

RejectedBodies ==
    { JsonNull, Malformed }
    \cup { JsonObject(ChatDict(m, Absent, "a")) : m \in {Absent, PyNone, ""} }
    \cup { JsonObject(ChatDict("m1", Absent, sd)) : sd \in {Absent, PyNone, ""} }

ChatBodies ==
    RejectedBodies \cup BodiesWithMode({Absent, JsonList}, Names)

SYSTEM_PROMPTS ==
    [coding_coach |-> "You are CodeSensei, a 'Coding Coach'.",
     debugging_assistant |-> "You are CodeSensei, a 'Debugging Assistant'.",
     general |-> "You are CodeSensei, a helpful AI assistant."]

Acknowledgement == "Understood. I will act as CodeSensei and guide the user."

\* what generate_content() returns: a response with text, or one without
Replies == {"reply"}
ResponseObject == "<response object>"

\* the request (header, body) and the locals of one call of chat()
Idle ==
    [pc |-> "idle", header |-> NoHeader, body |-> JsonNull, uid |-> "none",
     user_message |-> "", mode |-> "", session_id |-> "",
     history_docs |-> <<>>, conversation |-> <<>>, ai_message |-> "",
     status |-> 0]

\* return jsonify(...), status
Return(r, status) ==
    chat_req' = [chat_req EXCEPT ![r].pc = "done", ![r].status = status]

AddNothing(r, ref, role, content) ==
    /\ clock < MaxClock
    /\ clock' = clock + 1
    /\ messages' = messages

\* messages_collection.add({'role', 'content', 'timestamp': SERVER_TIMESTAMP})
Add(r, ref, role, content) ==
    /\ clock < MaxClock
    /\ clock' = clock + 1
    /\ messages' =
         [messages EXCEPT
            ![ref] = @ \cup {[id |-> clock + 1, role |-> role, content |-> content,
                              timestamp |-> clock + 1, by |-> r]}]

\* mode = data.get("mode", "general")
ModeOf(data) == DictGet(data, "mode", "general")

SystemInstructionCoach(mode) == SYSTEM_PROMPTS["coding_coach"]

\* SYSTEM_PROMPTS.get(mode, SYSTEM_PROMPTS["general"])
SystemInstruction(mode) ==
    IF mode \in DOMAIN SYSTEM_PROMPTS THEN SYSTEM_PROMPTS[mode]
    ELSE SYSTEM_PROMPTS["general"]

\* role = "model" if msg.get('role') == 'assistant' else 'user'
RoleFor(msg) == IF msg.role = "assistant" THEN "model" ELSE "user"

Turn(msg) == [role |-> RoleFor(msg), parts |-> <<msg.content>>]

\* for doc in history_docs: history.insert(0, {...})
RECURSIVE BuildHistory(_, _)
BuildHistory(docs, history) ==
    IF docs = <<>> THEN history
    ELSE BuildHistory(Tail(docs), <<Turn(Head(docs))>> \o history)

HistoryQueryOldest(coll) == Limit(OrderByAsc(coll, "timestamp"), HistoryLimit)

HistoryQueryAll(coll) == OrderByDesc(coll, "timestamp")

\* messages_collection.order_by('timestamp', DESCENDING).limit(20).stream()
HistoryQuery(coll) == Limit(OrderByDesc(coll, "timestamp"), HistoryLimit)

Conversation(mode, history) ==
    <<[role |-> "user", parts |-> <<SystemInstruction(mode)>>],
      [role |-> "model", parts |-> <<Acknowledgement>>]>> \o history

\* user = verify_token(request); if not user: return 401
ChatVerify(r, h) ==
    /\ chat_req[r].pc = "idle"
    /\ LET user == verify_token(h)
       IN  chat_req' =
             [chat_req EXCEPT ![r] =
                IF user.ok
                THEN [@ EXCEPT !.pc = "parse", !.header = h, !.uid = user.uid]
                ELSE [@ EXCEPT !.pc = "done", !.header = h, !.status = 401]]
    /\ last' = NoResponse
    /\ UNCHANGED <<sessions, messages, clock>>

\* data = request.json ... the 400 check ... store the user message
ChatStoreUser(r, body) ==
    /\ chat_req[r].pc = "parse"
    /\ last' = NoResponse
    /\ UNCHANGED sessions
    /\ LET req == [chat_req[r] EXCEPT !.body = body]
           Leave(locals, status) ==
               /\ chat_req' = [chat_req EXCEPT
                                 ![r] = [locals EXCEPT !.pc = "done",
                                                       !.status = status]]
               /\ UNCHANGED <<messages, clock>>
       IN  IF body.kind = "malformed" THEN Leave(req, 400)
           ELSE IF body.kind = "null" THEN Leave(req, 500)
           ELSE LET data == body.dict
                    user_message == DictGet(data, "message", PyNone)
                    session_id == DictGet(data, "session_id", PyNone)
                    locals == [req EXCEPT !.user_message = user_message,
                                          !.mode = ModeOf(data),
                                          !.session_id = session_id]
                IN  IF Falsy(user_message) \/ Falsy(session_id)
                    THEN Leave(locals, 400)
                    ELSE \E raised \in BOOLEAN :
                         IF raised THEN Leave(locals, 500)
                         ELSE /\ Add(r, MessagesRef(req.uid, session_id),
                                     "user", user_message)
                              /\ chat_req' = [chat_req EXCEPT
                                                ![r] = [locals EXCEPT !.pc = "fetch"]]

\* fetch the history, pick the system instruction, build the conversation
ChatFetch(r) ==
    /\ chat_req[r].pc = "fetch"
    /\ last' = NoResponse
    /\ UNCHANGED <<sessions, messages, clock>>
    /\ \E raised \in BOOLEAN :
         IF raised \/ chat_req[r].mode = JsonList
         THEN Return(r, 500)
         ELSE LET c == chat_req[r]
                  history_docs == HistoryQuery(messages[MessagesRef(c.uid, c.session_id)])
                  history == BuildHistory(history_docs, <<>>)
              IN  chat_req' =
                    [chat_req EXCEPT ![r].pc = "generate",
                                     ![r].history_docs = history_docs,
                                     ![r].conversation = Conversation(c.mode, history)]

\* response = model.generate_content(conversation); recover the text
ChatGenerate(r) ==
    /\ chat_req[r].pc = "generate"
    /\ last' = NoResponse
    /\ UNCHANGED <<sessions, messages, clock>>
    /\ \/ Return(r, 500)
       \/ \E text \in Replies \cup {""} :
            chat_req' =
              [chat_req EXCEPT ![r].pc = "store",
                               ![r].ai_message =
                                  IF text # "" THEN text ELSE ResponseObject]

\* store the assistant message; return {"response": ai_message}
ChatStoreReply(r) ==
    /\ chat_req[r].pc = "store"
    /\ last' = NoResponse
    /\ UNCHANGED sessions
    /\ \E raised \in BOOLEAN :
         IF raised \/ chat_req[r].ai_message = ResponseObject
         THEN Return(r, 500) /\ UNCHANGED <<messages, clock>>
         ELSE /\ Add(r, MessagesRef(chat_req[r].uid, chat_req[r].session_id),
                     "assistant", chat_req[r].ai_message)
              /\ Return(r, 200)

\* --------------------------------------------------------- specification
Init ==
    /\ sessions = [u \in Users |-> {}]
    /\ messages = [k \in Users \X SessionKeys |-> {}]
    /\ clock = 0
    /\ chat_req = [r \in Reqs |-> Idle]
    /\ last = NoResponse

NoChatInFlight == \A r \in Reqs : chat_req[r].pc = "idle"

Chat(r, headers, bodies) ==
    \/ \E h \in headers : ChatVerify(r, h)
    \/ \E body \in bodies : ChatStoreUser(r, body)
    \/ ChatFetch(r)
    \/ ChatGenerate(r)
    \/ ChatStoreReply(r)

\* the request is over: its thread serves the next one
ChatEnd(r) ==
    /\ chat_req[r].pc = "done"
    /\ chat_req' = [chat_req EXCEPT ![r] = Idle]
    /\ last' = NoResponse
    /\ UNCHANGED <<sessions, messages, clock>>

\* the five routes; a request is served when no chat request is in flight
Next ==
    \/ \E h \in Headers : NoChatInFlight /\ get_chat_sessions(h)
    \/ \E h \in Headers, body \in CreateBodies :
         NoChatInFlight /\ create_session(h, body)
    \/ \E h \in Headers, sid \in SessionKeys :
         NoChatInFlight /\ get_session_messages(h, sid)
    \/ \E h \in Headers, sid \in SessionKeys :
         NoChatInFlight /\ delete_session(h, sid)
    \/ Chat("r1", Headers, ChatBodies)
    \/ ChatEnd("r1")

Spec == Init /\ [][Next]_vars

\* chat requests of the two users running concurrently
ConcHeaders == {NoHeader} \cup {Header(<<BearerSep, TokenOf(u)>>) : u \in Users}
ConcBodies ==
    BodiesWithMode({Absent}, {"a"}) \cup {JsonObject(ChatDict("", Absent, "a"))}

NextConc == \E r \in Reqs : Chat(r, ConcHeaders, ConcBodies)

SpecConc == Init /\ [][NextConc]_vars

\* A session that already holds n messages, written by earlier requests:
\* user and assistant messages in turn, or user messages only (every
\* reply failed), with the timestamps the store gave them.
StoredMessages(n, replies) ==
    { [id |-> i - n,
       role |-> IF replies /\ i % 2 = 0 THEN "assistant" ELSE "user",
       content |-> "h" \o ToString(i),
       timestamp |-> i - n,
       by |-> "earlier"] : i \in 1 .. n }

InitHist ==
    /\ sessions = [u \in Users |-> {}]
    /\ \E n \in 0 .. MaxStored, replies \in BOOLEAN :
         messages = [k \in Users \X SessionKeys |->
                       IF k = <<"u1", "a">> THEN StoredMessages(n, replies) ELSE {}]
    /\ clock = 0
    /\ chat_req = [r \in Reqs |-> Idle]
    /\ last = NoResponse

HistHeaders == {Header(<<BearerSep, TokenOf("u1")>>)}
HistBodies == BodiesWithMode(ModeInputs, {"a"})

\* chat requests on a session with a long history, one after the other
NextHist == Chat("r1", HistHeaders, HistBodies) \/ ChatEnd("r1")

SpecHist == InitHist /\ [][NextHist]_vars

\* ================================================================ claims
Store == <<sessions, messages, clock>>
AllMessages == UNION {messages[k] : k \in DOMAIN messages}
WrittenBy(r) == {m \in AllMessages : m.by = r}
Range(s) == {s[i] : i \in 1 .. Len(s)}

\* The header reads 'Bearer <token>' and the identity provider accepts <token>
ValidBearer(h) ==
    /\ h.present
    /\ Len(h.value) = 2
    /\ h.value[1] = BearerSep
    /\ \E u \in Users : h.value[2] = TokenOf(u)

\* a step in which request r of chat() passed or failed the token check
Verified(r) == chat_req[r].pc = "idle" /\ chat_req'[r].pc # "idle"

\* C1: on every route a request whose Authorization header is missing, is
\* not of the form 'Bearer <token>' or carries a rejected token is answered
\* 401 and touches neither the store nor the model.
C1_UnauthorizedUnlessBearer ==
    [][ /\ (last'.route # "none" /\ ~ValidBearer(last'.header))
           => (last'.status = 401 /\ UNCHANGED Store)
        /\ \A r \in Reqs :
             (Verified(r) /\ ~ValidBearer(chat_req'[r].header))
             => (/\ chat_req'[r].pc = "done"
                 /\ chat_req'[r].status = 401
                 /\ UNCHANGED Store) ]_vars

\* the messages of a set with a given role
WithRole(ms, role) == {m \in ms : m.role = role}

\* request r of chat() was authenticated and carried a non-empty message
\* and session_id
Posted(r) ==
    /\ chat_req[r].uid \in Users
    /\ chat_req[r].body.kind = "object"
    /\ ~Falsy(chat_req[r].user_message)
    /\ ~Falsy(chat_req[r].session_id)

\* r stored one user message and then one assistant message in its session
OneUserThenOneAssistant(r) ==
    LET mine == WrittenBy(r)
        coll == messages[<<chat_req[r].uid, chat_req[r].session_id>>]
    IN  /\ Cardinality(mine) = 2
        /\ mine \subseteq coll
        /\ \E u \in WithRole(mine, "user"), a \in WithRole(mine, "assistant") :
             /\ u.timestamp < a.timestamp
             /\ u.content = chat_req[r].user_message
             /\ a.content = chat_req[r].ai_message

\* C2 as claimed: every authenticated chat request with a non-empty message
\* and session_id persists exactly one user message and then exactly one
\* assistant message in the session's collection (stated for the requests
\* whose user message was stored and whose history was read).
C2_PostedPersistsBoth ==
    \A r \in Reqs :
      (chat_req[r].pc = "done" /\ Posted(r) /\ chat_req[r].conversation # <<>>)
      => OneUserThenOneAssistant(r)

\* C2 as amended: a chat request answered 200 has persisted exactly one
\* user message and then exactly one assistant message in its session's
\* collection; while it runs, and when it is answered 500, it has persisted
\* at most its user message and no assistant message; a request answered
\* 400 or 401 has persisted nothing.
C2_AnsweredPersistsBoth ==
    \A r \in Reqs :
      LET c == chat_req[r]
          mine == WrittenBy(r)
      IN  /\ (c.pc = "done" /\ c.status = 200) => OneUserThenOneAssistant(r)
          /\ c.pc \in {"fetch", "generate", "store"}
             => (Cardinality(mine) = 1 /\ WithRole(mine, "user") = mine)
          /\ (c.pc = "done" /\ c.status = 500)
             => (Cardinality(mine) <= 1 /\ WithRole(mine, "user") = mine)
          /\ (c.pc \in {"idle", "parse"} \/ c.status \in {400, 401})
             => mine = {}

C2_Witness ==
    \E r \in Reqs :
      /\ chat_req[r].pc = "done"
      /\ chat_req[r].status = 200
      /\ Cardinality(WrittenBy(r)) = 2

\* r has handed a conversation to generate_content()
ReachedInference(r) == chat_req[r].conversation # <<>>

\* the collection r writes to and reads from
SessionOf(r) == messages[<<chat_req[r].uid, chat_req[r].session_id>>]

\* some message of the session lies strictly between a and b
Between(r, a, b) ==
    \E m \in SessionOf(r) : a.timestamp < m.timestamp /\ m.timestamp < b.timestamp

\* C10 as claimed: for every chat request that reaches the inference call
\* the last turn of the conversation is its own user message, and the
\* assistant message it stores is the next message after its user message,
\* also with concurrent chat requests on the same session.
C10_OwnMessageLast_ReplyNext ==
    \A r \in Reqs :
      ReachedInference(r) =>
        /\ chat_req[r].history_docs[1].by = r
        /\ (chat_req[r].pc = "done" /\ chat_req[r].status = 200)
           => \A u \in WithRole(WrittenBy(r), "user"),
                 a \in WithRole(WrittenBy(r), "assistant") : ~Between(r, u, a)

\* the step in which r reads the history and builds the conversation
Fetched(r) == chat_req[r].pc = "fetch" /\ chat_req'[r].pc = "generate"

\* C10 as amended: the last turn of the conversation of a chat request is
\* that request's own user message when no other message was stored in the
\* session between its write and its history read; the assistant message it
\* then stores is later in the session's timestamp order than its user
\* message.  With concurrent chat requests on one session, messages of the
\* other requests may follow its user message in the conversation and may
\* lie between its two messages.
C10_OwnMessageLast_WhenAlone ==
    /\ [][ \A r \in Reqs :
             Fetched(r) =>
               \A own \in WrittenBy(r) :
                 LET newer == {m \in SessionOf(r) : m.timestamp > own.timestamp}
                     h == chat_req'[r].history_docs
                     conv == chat_req'[r].conversation
                 IN  newer = {} =>
                       /\ h[1] = own
                       /\ conv[Len(conv)] =
                            [role |-> "user", parts |-> <<own.content>>] ]_vars
    /\ [](\A r \in Reqs :
            (chat_req[r].pc = "done" /\ chat_req[r].status = 200) =>
              \A u \in WithRole(WrittenBy(r), "user") :
                \E a \in WithRole(WrittenBy(r), "assistant") :
                  /\ a \in SessionOf(r)
                  /\ u.timestamp < a.timestamp)

\* two requests on one session, the message of one between the two of the other
C10_Witness ==
    \E r \in Reqs :
      /\ chat_req[r].pc = "done"
      /\ chat_req[r].status = 200
      /\ \E u \in WithRole(WrittenBy(r), "user"),
            a \in WithRole(WrittenBy(r), "assistant") : Between(r, u, a)

\* a step in which a single-operation route answered
Answered(route) == last'.route = route

\* C3: every stored message lies under exactly one session of exactly one
\* user, and a response to a request authenticated as U (session list,
\* message list, chat history) holds only what is stored under U, also when
\* another user has a session with the same id.
C3_NoCrossUserVisibility ==
    /\ \A k1, k2 \in DOMAIN messages :
         \A m1 \in messages[k1], m2 \in messages[k2] :
           m1.id = m2.id => (k1 = k2 /\ m1 = m2)
    /\ (last.route = "get_session_messages" /\ last.status = 200)
       => Range(last.body) \subseteq messages[<<last.uid, last.arg>>]
    /\ (last.route = "get_chat_sessions" /\ last.status = 200)
       => \A e \in Range(last.body) :
            \E d \in sessions[last.uid] : d.id = e.id /\ d.name = e.name
    /\ \A r \in Reqs :
         chat_req[r].history_docs # <<>>
         => Range(chat_req[r].history_docs)
              \subseteq messages[<<chat_req[r].uid, chat_req[r].session_id>>]

\* a user reads the messages of a session while another user has messages
\* in a session with the same id
C3_Witness ==
    /\ last.route = "get_session_messages"
    /\ last.status = 200
    /\ last.body # <<>>
    /\ \E u \in Users \ {last.uid} : messages[<<u, last.arg>>] # {}

\* what the two read routes answer is what the store holds
ReadsShowStore ==
    /\ (last.route = "get_chat_sessions" /\ last.status = 200)
       => /\ {e.id : e \in Range(last.body)} = Ids(sessions[last.uid])
          /\ Len(last.body) = Cardinality(sessions[last.uid])
    /\ (last.route = "get_session_messages" /\ last.status = 200)
       => /\ Range(last.body) = messages[<<last.uid, last.arg>>]
          /\ Len(last.body) = Cardinality(messages[<<last.uid, last.arg>>])

\* C4: a delete_session(id) the store carries out removes the caller's
\* session document id and nothing else: the messages under it and every
\* other session and message stay (one that fails changes nothing), so the
\* session list no longer shows id and the message list of id still shows
\* its messages.
C4_DeleteIsShallow ==
    /\ [][ Answered("delete_session") =>
             IF last'.status = 200
             THEN /\ \A u \in Users :
                       sessions'[u] =
                         IF u = last'.uid
                         THEN {d \in sessions[u] : d.id # last'.arg}
                         ELSE sessions[u]
                  /\ messages' = messages
             ELSE UNCHANGED Store ]_vars
    /\ []ReadsShowStore

\* a session was deleted and its messages are still stored
C4_Witness ==
    /\ last.route = "delete_session"
    /\ last.status = 200
    /\ last.arg \notin Ids(sessions[last.uid])
    /\ messages[<<last.uid, last.arg>>] # {}

TimestampedLabels == {"Chat - " \o ToString(t) : t \in 0 .. MaxClock}

C6_SessionNeverMutated ==
    [][ \A u \in Users :
          \A d \in sessions[u], e \in sessions'[u] :
            d.id = e.id => (d.name = e.name /\ d.created_at = e.created_at) ]_vars

\* the mode of the request's body: a JSON value, or Absent
RequestMode(r) ==
    IF "mode" \in DOMAIN chat_req[r].body.dict
    THEN chat_req[r].body.dict["mode"] ELSE Absent

Statuses == {last.status} \cup {chat_req[r].status : r \in Reqs}

\* C8 as claimed: a request ends in success, in 401 or in 500; no route
\* answers with another error status.
C8_Only401And500 == Statuses \subseteq {0, 200, 401, 500}

\* the body of request r is not JSON, or lacks a non-empty message or
\* session_id
IncompleteChatBody(r) ==
    LET b == chat_req[r].body
        Missing(key) == key \notin DOMAIN b.dict \/ b.dict[key] \in {PyNone, ""}
    IN  \/ b.kind = "malformed"
        \/ b.kind = "object" /\ (Missing("message") \/ Missing("session_id"))

\* C8 as amended: a request ends in success or in one of three error
\* statuses: 401 exactly when the token check fails (never for a header
\* 'Bearer <token>' with an accepted token), 400 on chat alone, exactly when
\* an authenticated request's body is not JSON or lacks a non-empty message
\* or session_id, and 500 otherwise.
C8_Only400_401_500 ==
    /\ Statuses \subseteq {0, 200, 400, 401, 500}
    /\ last.status # 400
    /\ last.status = 401 <=> (last.route # "none" /\ last.uid \notin Users)
    /\ last.status = 401 => ~ValidBearer(last.header)
    /\ \A r \in Reqs :
         LET c == chat_req[r]
         IN  /\ c.status = 401 <=> (c.pc = "done" /\ c.uid \notin Users)
             /\ c.status = 401 => ~ValidBearer(c.header)
             /\ c.status = 400 <=>
                  (c.pc = "done" /\ c.uid \in Users /\ IncompleteChatBody(r))

\* a chat request answered 400
C8_Witness ==
    \E r \in Reqs :
      /\ chat_req[r].status = 400
      /\ chat_req[r].body.kind = "object"

\* the turn the model is sent for a stored message
TurnOf(m) ==
    [role |-> IF m.role = "assistant" THEN "model" ELSE "user",
     parts |-> <<m.content>>]

\* C9: the conversation is one 'user' turn with the system instruction, one
\* 'model' turn with the acknowledgement, then the min(20, n) messages of
\* the session with the greatest timestamps at fetch time, in increasing
\* timestamp order, 'assistant' sent as 'model' and every other role as
\* 'user'; no older message is included.
C9_NewestTwentyInOrder ==
    [][ \A r \in Reqs :
          Fetched(r) =>
            LET coll == SessionOf(r)
                n == Cardinality(coll)
                k == IF n < 20 THEN n ELSE 20
                top == {m \in coll :
                          Cardinality({x \in coll : x.timestamp > m.timestamp}) < k}
                conv == chat_req'[r].conversation
            IN  /\ Len(conv) = 2 + k
                /\ conv[1].role = "user"
                /\ conv[1].parts \in {<<SYSTEM_PROMPTS[md]>> : md \in DOMAIN SYSTEM_PROMPTS}
                /\ conv[2] = [role |-> "model", parts |-> <<Acknowledgement>>]
                /\ \A m \in top :
                     LET i == Cardinality({x \in top : x.timestamp < m.timestamp})
                     IN  conv[3 + i] = TurnOf(m) ]_vars

\* a conversation of 22 turns built from a session of more than 20 messages
C9_Witness ==
    \E r \in Reqs :
      /\ chat_req[r].pc = "generate"
      /\ Len(chat_req[r].conversation) = 22
      /\ Cardinality(SessionOf(r)) > 20
      /\ \E m \in SessionOf(r) : m.role = "assistant"

====
